---- MODULE Spec2Model ----
(***************************************************************************)
(* Model of the daemon supervisor "Hell" (src/app/manager/hell/hell.py)    *)
(* and of the Daemon it supervises (src/app/manager/daemon/deamon.py).     *)
(*                                                                         *)
(* The supervisor runs on one asyncio event loop.  A coroutine that holds  *)
(* the loop runs until it reaches an await that really suspends, so        *)
(* Daemon.start and Daemon.stop (no await inside) are atomic with respect  *)
(* to the other coroutines.  The children are operating-system processes:  *)
(* a child may exit at any moment, also between two statements of a        *)
(* coroutine, which is why every is_running() read of a handler is a       *)
(* separate sample of the environment.                                     *)
(***************************************************************************)
EXTENDS Integers, Sequences, FiniteSets, TLC

\* ---------------------------------------------------------------- bounds
\* Cap on the sum of start_attempts over the daemons of the registry.
MaxAttempts == 4

\* Cap on the watcher tasks alive that _watcher_task no longer names.
MaxStaleWatchers == 1

\* ------------------------------------------------------ program constants
MAX_FAILED_STARTS == 3

\* ----------------------------------------------------------- configuration
\* The daemons the configuration document declares, in document order.
Daemons == {"a", "b"}
DaemonOrder == <<"a", "b">>

\* Config.keep_running (YAML auto-restart) of each declared daemon.
keep_running == [d \in Daemons |-> d = "a"]
\* Config.requirements_path is set (YAML requirements other than "-").
requirements_path == [d \in Daemons |-> d = "b"]
\* Config.create_venv (YAML virtualenv, False when the entry leaves it out).
create_venv == [d \in Daemons |-> d = "b"]
\* Config.main_file_arguments: tuple(arguments) of the YAML `arguments` of
\* "a"; "b" leaves them out and gets tuple(DEFAULT_ARGUMENTS), the empty one.
main_file_arguments ==
    [d \in Daemons |-> IF d = "a" THEN <<"--port", "8080">> ELSE <<>>]

\* The main-file paths the entries of a configuration document resolve to.
Paths == {"p1", "p2"}

\* One entry of the document's `daemons` mapping, as _create_daemon sees it:
\* whether the entry is there, whether its directory, its target file and
\* its declared requirements file exist, and the path of its target.
Entry(decl, dir, target, req, path) ==
    [declared |-> decl, dir_exists |-> dir, target_exists |-> target,
     requirements_exists |-> req, main_file_path |-> path]

NoEntry == Entry(FALSE, FALSE, FALSE, FALSE, "p1")

\* The entries a document may hold for each declared name.  The target of
\* "b" resolves to its own file or to the file of "a".
Entries ==
    [a |-> {NoEntry,
            Entry(TRUE, FALSE, TRUE, TRUE, "p1"),
            Entry(TRUE, TRUE, TRUE, TRUE, "p1")},
     b |-> {NoEntry,
            Entry(TRUE, TRUE, FALSE, TRUE, "p2"),
            Entry(TRUE, TRUE, TRUE, FALSE, "p2"),
            Entry(TRUE, TRUE, TRUE, TRUE, "p1"),
            Entry(TRUE, TRUE, TRUE, TRUE, "p2")}]

\* What yaml.safe_load returns for the configuration file: nothing (an
\* empty file, "empty") or a mapping with the key `daemons` ("daemons").
Documents ==
    {[kind |-> "empty", daemons |-> [d \in Daemons |-> NoEntry]]}
    \cup {[kind |-> "daemons", daemons |-> es] :
              es \in [a : Entries["a"], b : Entries["b"]]}

\* Hell._config before any load.
NoConfig == [kind |-> "none", daemons |-> [d \in Daemons |-> NoEntry]]

VARIABLES
    registry,        \* Hell._daemons_mapping: the names that have a Daemon
    config,          \* Hell._config: the loaded configuration document
    running,         \* Hell.running
    watcher,         \* state of the task in Hell._watcher_task
    process,         \* Daemon._process: 0 is None, n > 0 the n-th handle
    alive,           \* the children of each Daemon the OS reports alive
    orphaned,        \* a child whose Daemon object was dropped is alive
    start_attempts,  \* Daemon._start_attempts
    starts_count,    \* Daemon._starts_count
    failed_starts,   \* Daemon._failed_starts
    installed,       \* Daemon._installed_requirements is non-empty
    installer_runs,  \* history: runs of the installer that exited with 0
    venv_created,    \* Daemon._venv_created
    venv_exists,     \* the directory Daemon._venv_path exists; every Daemon
                     \* gets the same parent folder, so there is one
    status,          \* Daemon status tag
    touched,         \* history: daemons a watcher poll saw running or the
                     \* operator acted on
    loop,            \* the coroutine that holds the event loop
    pending,         \* pending_for_restart of the running watcher iteration
    stop_list,       \* the rest of _stop_all's list of running daemons
    starting,        \* the start tasks of _start_all not yet run
    errors,          \* the error tally of _start_all
    last,            \* history: the call whose return led to this state
    invitations,     \* the rows of the Invitation table, by code
    keys,            \* the rows of the APIKey table
    req,             \* the request each worker thread of the API handles
    restarting,      \* a Hell.restart call sleeps between its stop and start
    stale_watchers   \* watcher tasks alive that _watcher_task no longer names

vars == <<registry, config, running, watcher, process, alive, orphaned, start_attempts,
          starts_count, failed_starts, installed, installer_runs,
          venv_created, venv_exists, status, touched, loop,
          pending, stop_list, starting, errors, last,
          invitations, keys, req, restarting, stale_watchers>>

daemonVars == <<process, alive, start_attempts, starts_count, failed_starts,
                installed, installer_runs, venv_created, venv_exists>>
hellVars == <<registry, config, running, watcher, orphaned>>
loopVars == <<loop, pending, stop_list, starting, errors>>
accessVars == <<invitations, keys, req>>
restartVars == <<restarting, stale_watchers>>

\* ------------------------------------------------------------- helpers
\* The fields of one Daemon object, as a value the operations transform.
Dmn(d) == [process |-> process[d],
           alive |-> alive[d],
           start_attempts |-> start_attempts[d],
           starts_count |-> starts_count[d],
           failed_starts |-> failed_starts[d],
           installed |-> installed[d],
           installer_runs |-> installer_runs[d],
           venv_created |-> venv_created[d],
           venv_exists |-> venv_exists]

\* A Daemon as Daemon.__init__ leaves it; the directory of the environment
\* is the file system's, not the object's.
NewDaemon == [process |-> 0, alive |-> {}, start_attempts |-> 0,
              starts_count |-> 0, failed_starts |-> 0, installed |-> FALSE,
              installer_runs |-> 0, venv_created |-> FALSE,
              venv_exists |-> venv_exists]

\* Daemon.is_running on the fields of a Daemon: a handle exists and the OS
\* reports its child alive.
handle_is_running(dm) == dm.process # 0 /\ dm.process \in dm.alive

\* Daemon.is_running
is_running(d) == handle_is_running(Dmn(d))

\* Hell.get_running_daemons
get_running_daemons == {d \in registry : is_running(d)}

\* Daemon.get_failed_starts
get_failed_starts(d) == failed_starts[d]

\* The elements of a sequence.
Range(seq) == {seq[i] : i \in DOMAIN seq}

\* The daemons of a set as a sequence in registry (insertion) order.
InOrder(S) == SelectSeq(DaemonOrder, LAMBDA d : d \in S)

\* What the history keeps of a daemon before a call.
Snapshot(d) == [process |-> process[d],
                start_attempts |-> start_attempts[d],
                starts_count |-> starts_count[d],
                failed_starts |-> failed_starts[d]]

NoSnapshot == [process |-> 0, start_attempts |-> 0, starts_count |-> 0,
               failed_starts |-> 0]

\* The record of a call on daemon d, taken in the state the call starts in.
Call(op, d, result, sent) ==
    [op |-> op, d |-> d, result |-> result, pre |-> Snapshot(d),
     pre_running |-> is_running(d), sent |-> sent, argv |-> <<>>]

\* The record of a call on the supervisor as a whole.
GlobalCall(op, result) ==
    [op |-> op, d |-> "", result |-> result, pre |-> NoSnapshot,
     pre_running |-> FALSE, sent |-> <<>>, argv |-> <<>>]

\* The record of a call that ran Daemon.start, with the command it spawned.
StartCall(op, d, r) == [Call(op, d, r.result, <<>>) EXCEPT !.argv = r.argv]

NoCall == GlobalCall("none", "none")

TotalAttempts == start_attempts["a"] + start_attempts["b"]

\* The values a second is_running() read can take after a first read: a
\* child that was dead stays dead, a child that was alive may have exited.
LaterReads(first) == IF first THEN {TRUE, FALSE} ELSE {FALSE}

\* ------------------------------------------------------ Daemon operations
\* The decorator running_required(expected): the decorated method proceeds
\* when is_running() equals `expected`; otherwise is_running() is read again
\* to pick the error that is raised.
running_required_always(expected, first, second) == "proceed"

running_required(expected, first, second) ==
    IF first = expected THEN "proceed"
    ELSE IF ~second THEN "DaemonIsNotRunningError"
    ELSE "DaemonIsRunningError"

\* self._start_attempts += 1
count_attempt_forgotten(dm) == dm.start_attempts

count_attempt(dm) == dm.start_attempts + 1

\* self._failed_starts += 1
count_failure_forgotten(dm) == dm.failed_starts

count_failure(dm) == dm.failed_starts + 1

\* The outcomes of _install_requirements the environment decides: "ok" (pip
\* returned 0 and the file lists requirements), "empty" (pip returned 0 and
\* the file lists nothing), "pip_failed", "missing" (no requirements file),
\* "venv_failed" (`python -m venv` was rejected or failed and left nothing)
\* and "venv_partial" (it failed and left the directory behind).
ProvisionOutcomes ==
    {"ok", "empty", "pip_failed", "missing", "venv_failed", "venv_partial"}

\* The outcomes of the `python -m venv` command alone.
VenvOutcomes == {"created", "venv_failed", "venv_partial"}

\* What `python -m venv` does under a provisioning outcome.
venv_outcome(prov) ==
    IF prov \in {"venv_failed", "venv_partial"} THEN prov ELSE "created"

\* Daemon._create_venv: an existing directory is success without a run of
\* the command and without a change; otherwise the command runs and only
\* its success sets _venv_created.
create_venv_always_runs(dm, vo) ==
    [dm |-> [dm EXCEPT !.venv_exists = TRUE, !.venv_created = TRUE],
     result |-> TRUE, ran |-> TRUE]

Daemon_create_venv(dm, vo) ==
    IF dm.venv_exists
    THEN [dm |-> dm, result |-> TRUE, ran |-> FALSE]
    ELSE IF vo = "created"
    THEN [dm |-> [dm EXCEPT !.venv_exists = TRUE, !.venv_created = TRUE],
          result |-> TRUE, ran |-> TRUE]
    ELSE IF vo = "venv_partial"
    THEN [dm |-> [dm EXCEPT !.venv_exists = TRUE],
          result |-> FALSE, ran |-> TRUE]
    ELSE [dm |-> dm, result |-> FALSE, ran |-> TRUE]

\* The exit code of `pip install -r` in _install_requirements; the
\* installer does not run when the requirements file is missing or the
\* environment could not be created.
installer_exit_code(prov) == IF prov \in {"ok", "empty"} THEN 0 ELSE 1

\* Daemon._install_requirements: whether _installed_requirements is
\* non-empty afterwards.
install_requirements(dm, prov) == prov = "ok"

\* The environment step of Daemon._install_requirements: _create_venv is
\* called when the requirements file exists and the configuration asks
\* for an environment.
install_requirements_venv(d, dm, prov) ==
    IF create_venv[d] /\ prov # "missing"
    THEN Daemon_create_venv(dm, venv_outcome(prov)).dm
    ELSE dm

\* The outcomes of the spawn the environment decides: Popen raises, or it
\* returns a handle whose child is dead or alive at the liveness check.
SpawnOutcomes == {"raise", "dead", "alive"}

\* IsolationProvider.run_in_sandbox, plain variant: the handle of
\* Executor._return_process, which re-raises what Popen raises.
run_in_sandbox(sp) == IF sp = "raise" THEN "SpawnError" ELSE "handle"

\* constants.CMD_PYTHON, or the interpreter of the daemon's environment.
python_command(dm) == IF dm.venv_created THEN "venv/bin/python" ELSE "python"

\* constants.CMD_TO_DEV_NULL
CMD_TO_DEV_NULL == <<">", "/dev/null">>

\* The command Daemon.start builds and hands to run_in_sandbox: the
\* interpreter, the main file and, off Windows, the redirection.
start_cmd(d, dm) ==
    <<python_command(dm), config.daemons[d].main_file_path>>
        \o CMD_TO_DEV_NULL

\* The body of Daemon.start.  The handle a spawn returns is numbered by the
\* attempts made before it, so every spawn of a Daemon has its own child.
start_body(d, dm, prov, sp) ==
    LET att == count_attempt(dm)
        pid == dm.start_attempts + 1
        need == requirements_path[d] /\ ~dm.installed
        inst == IF need THEN install_requirements(dm, prov) ELSE dm.installed
        d0 == IF need THEN install_requirements_venv(d, dm, prov) ELSE dm
        d1 == [d0 EXCEPT !.start_attempts = att, !.installed = inst,
                         !.installer_runs =
                            IF need /\ installer_exit_code(prov) = 0
                            THEN @ + 1 ELSE @]
        d2 == [d1 EXCEPT !.process = pid,
                         !.alive = IF sp = "alive" THEN @ \cup {pid} ELSE @]
        cmd == start_cmd(d, d1)
    IN  IF need /\ ~inst
        THEN [dm |-> [d1 EXCEPT !.failed_starts = count_failure(dm)],
              result |-> "false", argv |-> <<>>]
        ELSE IF run_in_sandbox(sp) # "handle"
        THEN [dm |-> d1, result |-> run_in_sandbox(sp), argv |-> cmd]
        ELSE IF ~handle_is_running(d2)
        THEN [dm |-> [d2 EXCEPT !.failed_starts = count_failure(dm)],
              result |-> "false", argv |-> cmd]
        ELSE [dm |-> [d2 EXCEPT !.starts_count = @ + 1], result |-> "true",
              argv |-> cmd]

\* Daemon.start with its decorator running_required(False).  `second` is the
\* decorator's second is_running() read: FALSE after a first read of TRUE
\* means that the child exited in between.
start(d, dm, second, prov, sp) ==
    LET first == handle_is_running(dm)
        guard == running_required(FALSE, first, second)
    IN  IF guard = "proceed" THEN start_body(d, dm, prov, sp)
        ELSE [dm |-> [dm EXCEPT !.alive = IF second THEN @ ELSE @ \ {dm.process}],
              result |-> guard, argv |-> <<>>]

\* The outcomes of kill() followed by terminate() the environment decides:
\* at the liveness check that follows the child is gone or still alive.
KillOutcomes == {"dies", "survives"}

\* The body of Daemon.stop: kill(), terminate(), then the liveness check.
stop_body(dm, ks) ==
    LET d1 == [dm EXCEPT !.alive = IF ks = "dies" THEN @ \ {dm.process} ELSE @]
    IN  [dm |-> d1,
         result |-> IF ~handle_is_running(d1) THEN "true" ELSE "false",
         sent |-> <<"kill", "terminate">>]

\* Daemon.stop with its decorator running_required(True).
stop_unguarded(dm, second, ks) == stop_body(dm, ks)

stop(dm, second, ks) ==
    LET first == handle_is_running(dm)
        guard == running_required(TRUE, first, second)
    IN  IF guard = "proceed" THEN stop_body(dm, ks)
        ELSE [dm |-> dm, result |-> guard, sent |-> <<>>]

\* What memory_info() of a handle whose child has exited does, as the OS
\* decides: it still answers (the child is not reaped yet) or it raises.
ProbeOutcomes == {"answers", "NoSuchProcess"}

\* Daemon.get_state: every field is read from self._process, without a
\* test for None and without a test for a child that has exited.
get_state(dm, probe) ==
    IF dm.process = 0 THEN [result |-> "AttributeError"]
    ELSE IF ~handle_is_running(dm) /\ probe # "answers"
    THEN [result |-> probe]
    ELSE [result |-> "State", running |-> handle_is_running(dm),
          pid |-> dm.process, starts_count |-> dm.starts_count,
          start_attempts |-> dm.start_attempts,
          failed_starts |-> dm.failed_starts,
          venv_created |-> dm.venv_created]

\* The fields of daemon d become dm.
Commit(d, dm) ==
    /\ process' = [process EXCEPT ![d] = dm.process]
    /\ alive' = [alive EXCEPT ![d] = dm.alive]
    /\ start_attempts' = [start_attempts EXCEPT ![d] = dm.start_attempts]
    /\ starts_count' = [starts_count EXCEPT ![d] = dm.starts_count]
    /\ failed_starts' = [failed_starts EXCEPT ![d] = dm.failed_starts]
    /\ installed' = [installed EXCEPT ![d] = dm.installed]
    /\ installer_runs' = [installer_runs EXCEPT ![d] = dm.installer_runs]
    /\ venv_created' = [venv_created EXCEPT ![d] = dm.venv_created]
    /\ venv_exists' = dm.venv_exists

\* The spawn outcomes of one start call on daemon d: a call whose
\* provisioning fails returns before the spawn.
SpawnChoices(d, prov) ==
    IF requirements_path[d] /\ ~installed[d] /\ ~install_requirements(Dmn(d), prov)
    THEN {"dead"} ELSE SpawnOutcomes

\* The kill outcomes of one stop call on daemon d: a daemon that is not
\* running is not signalled.
KillChoices(d) == IF is_running(d) THEN KillOutcomes ELSE {"dies"}

\* The environment's choices for one start call on daemon d.
ProvisionChoices(d) ==
    IF ~(requirements_path[d] /\ ~installed[d]) THEN {"ok"}
    ELSE IF create_venv[d] /\ ~venv_exists THEN ProvisionOutcomes
    ELSE ProvisionOutcomes \ {"venv_failed", "venv_partial"}

\* ------------------------------------------------------- access tables
\* The invitation codes generate_token can hand out, in the order used.
Codes == {"c1", "c2"}
CodeOrder == <<"c1", "c2">>

\* The worker threads of the API: the routes of the access router are
\* plain functions, which the framework runs in a thread pool, so two
\* requests interleave between any two statements.
Threads == {1, 2}

\* request.client.host by what is_local_network makes of it: no client,
\* a loopback address, a private address, any other address.
Addresses == {"none", "loopback", "private", "public"}

\* An Invitation row: Invitation() sets active, expires_at lies in the
\* future; `expired` is expires_at < now.
NoInvitation == [exists |-> FALSE, active |-> FALSE, expired |-> FALSE]
NewInvitation == [exists |-> TRUE, active |-> TRUE, expired |-> FALSE]

\* The X-API-KEY values a request presents: 0 is no header or a string
\* that was never a token, n > 0 the n-th token generated.
PresentedKeys == 0 .. Cardinality(Codes)

\* A worker thread that handles no request.
NoRequest == [op |-> "none", pc |-> "idle", code |-> "", ip |-> "",
              key |-> 0, status |-> "", made |-> FALSE, late |-> FALSE,
              performed |-> FALSE]

\* Hell.__init__ and Daemon.__init__
Init ==
    /\ registry = {}
    /\ config = NoConfig
    /\ running = FALSE
    /\ watcher = "none"
    /\ process = [d \in Daemons |-> 0]
    /\ alive = [d \in Daemons |-> {}]
    /\ orphaned = FALSE
    /\ start_attempts = [d \in Daemons |-> 0]
    /\ starts_count = [d \in Daemons |-> 0]
    /\ failed_starts = [d \in Daemons |-> 0]
    /\ installed = [d \in Daemons |-> FALSE]
    /\ installer_runs = [d \in Daemons |-> 0]
    /\ venv_created = [d \in Daemons |-> FALSE]
    /\ venv_exists = FALSE
    /\ status = [d \in Daemons |-> "none"]
    /\ touched = {}
    /\ loop = "idle"
    /\ pending = <<>>
    /\ stop_list = <<>>
    /\ starting = <<>>
    /\ errors = 0
    /\ last = NoCall
    /\ invitations = [c \in Codes |-> NoInvitation]
    /\ keys = {}
    /\ req = [t \in Threads |-> NoRequest]
    /\ restarting = FALSE
    /\ stale_watchers = 0

\* The daemons the watcher may restart: the history follows only these.
Restartable(S) == {d \in S : keep_running[d]}

\* -------------------------------------------------- operator operations
\* Hell.start_daemon(name)
StartDaemon(d) ==
    /\ loop = "idle"
    /\ d \in registry
    /\ TotalAttempts < MaxAttempts
    /\ \E second \in LaterReads(is_running(d)),
          prov \in ProvisionChoices(d) :
          \E sp \in SpawnChoices(d, prov) :
          LET r == start(d, Dmn(d), second, prov, sp)
          IN  /\ Commit(d, r.dm)
              /\ last' = StartCall("start_daemon", d, r)
    /\ touched' = touched \cup Restartable({d})
    /\ UNCHANGED <<hellVars, loopVars, status>>
    /\ UNCHANGED <<accessVars, restartVars>>

\* Hell.stop_daemon(name)
StopDaemon(d) ==
    /\ loop = "idle"
    /\ d \in registry
    /\ \E second \in LaterReads(is_running(d)), ks \in KillChoices(d) :
          LET r == stop(Dmn(d), second, ks)
          IN  /\ Commit(d, r.dm)
              /\ last' = Call("stop_daemon", d, r.result, r.sent)
    /\ touched' = touched \cup Restartable({d})
    /\ UNCHANGED <<hellVars, loopVars, status>>
    /\ UNCHANGED <<accessVars, restartVars>>

\* -------------------------------------------------------- API routes
\* dependencies.hell_is_running: the daemon routes answer 404 unless the
\* supervisor is running.
hell_is_running == running

\* dependencies.get_daemon by the daemon_name of the path: the Daemon the
\* registry holds under that name.
get_daemon(d) == d \in registry

\* `if daemon.start():` and `if daemon.stop():` of the routes.  The call is
\* not awaited: it runs the decorator, which either raises (an unhandled
\* exception, status 500) or returns the coroutine object of the body.  A
\* coroutine object is true and its body never runs, so the route answers
\* 200.  `second` is the decorator's second is_running() read.
route_call(expected, dm, second) ==
    LET first == handle_is_running(dm)
        guard == running_required(expected, first, second)
    IN  IF guard = "proceed" THEN [dm |-> dm, result |-> "200"]
        ELSE [dm |-> [dm EXCEPT !.alive =
                         IF first /\ ~second THEN @ \ {dm.process} ELSE @],
              result |-> "500"]

\* POST /daemons/{daemon_name}/start
ApiStartDaemon(d) ==
    /\ loop = "idle"
    /\ hell_is_running
    /\ get_daemon(d)
    /\ \E second \in LaterReads(is_running(d)) :
          LET r == route_call(FALSE, Dmn(d), second)
          IN  /\ Commit(d, r.dm)
              /\ last' = Call("api_start", d, r.result, <<>>)
    /\ UNCHANGED <<hellVars, loopVars, status, touched>>
    /\ UNCHANGED <<accessVars, restartVars>>

\* POST /daemons/{daemon_name}/stop
ApiStopDaemon(d) ==
    /\ loop = "idle"
    /\ hell_is_running
    /\ get_daemon(d)
    /\ \E second \in LaterReads(is_running(d)) :
          LET r == route_call(TRUE, Dmn(d), second)
          IN  /\ Commit(d, r.dm)
              /\ last' = Call("api_stop", d, r.result, <<>>)
    /\ UNCHANGED <<hellVars, loopVars, status, touched>>
    /\ UNCHANGED <<accessVars, restartVars>>

\* `await daemon.stop() and await daemon.start()`: start is awaited only
\* when stop returned True.
restart_awaits_start_or(stop_result) == stop_result = "false"

restart_awaits_start(stop_result) == stop_result = "true"

\* Hell.restart_daemon(name)
RestartDaemon(d) ==
    /\ loop = "idle"
    /\ d \in registry
    /\ TotalAttempts < MaxAttempts
    /\ \E second \in LaterReads(is_running(d)), ks \in KillChoices(d),
          prov \in ProvisionChoices(d) :
          \E sp \in SpawnChoices(d, prov) :
          LET s == stop(Dmn(d), second, ks)
              r == start(d, s.dm, FALSE, prov, sp)
          IN  IF restart_awaits_start(s.result)
              THEN /\ Commit(d, r.dm)
                   /\ last' = [Call("restart_daemon", d, r.result, s.sent)
                                   EXCEPT !.argv = r.argv]
              ELSE /\ Commit(d, s.dm)
                   /\ last' = Call("restart_daemon", d, s.result, s.sent)
    /\ touched' = touched \cup Restartable({d})
    /\ UNCHANGED <<hellVars, loopVars, status>>
    /\ UNCHANGED <<accessVars, restartVars>>

\* `self._daemons_mapping[daemon_name]` of start_daemon and stop_daemon,
\* and search_daemon_by_name of restart_daemon: subscription of a dict,
\* which raises KeyError for a key it does not hold.
search_daemon_by_name(name) ==
    IF name \in registry THEN "daemon" ELSE "KeyError"

\* Hell.start_daemon, stop_daemon or restart_daemon (`op`) called with a
\* name the registry does not hold: the lookup is the first statement.
UnknownDaemon(op, name) ==
    /\ loop = "idle"
    /\ name \notin registry
    /\ last' = Call(op, name,
                    IF search_daemon_by_name(name) = "daemon"
                    THEN "false" ELSE search_daemon_by_name(name), <<>>)
    /\ UNCHANGED <<hellVars, daemonVars, loopVars, status, touched>>
    /\ UNCHANGED <<accessVars, restartVars>>

\* ------------------------------------------------------- global start
\* Hell._create_daemon: whether the entry yields a Daemon.  An entry whose
\* directory, target or declared requirements file is missing yields None.
create_daemon_without_requirements(d, e) ==
    /\ e.dir_exists
    /\ e.target_exists

create_daemon(d, e) ==
    /\ e.dir_exists
    /\ e.target_exists
    /\ (requirements_path[d] => e.requirements_exists)

\* Hell._add_daemon: the registry after the attempt to add d.
add_daemon_any(mapping, doc, d) == mapping \cup {d}

add_daemon(mapping, doc, d) ==
    IF \E r \in mapping :
          doc.daemons[r].main_file_path = doc.daemons[d].main_file_path
    THEN mapping
    ELSE mapping \cup {d}

\* The loop of Hell._load_daemons over the first n entries, in document
\* order.
RECURSIVE load_entries(_, _)
load_entries(doc, n) ==
    IF n = 0 THEN {}
    ELSE LET mapping == load_entries(doc, n - 1)
             d == DaemonOrder[n]
         IN  IF doc.daemons[d].declared /\ create_daemon(d, doc.daemons[d])
             THEN add_daemon(mapping, doc, d)
             ELSE mapping

\* Hell._load_daemons: the registry it leaves.
load_daemons(doc) == load_entries(doc, Len(DaemonOrder))

\* Hell.start up to asyncio.gather.  `doc` is the document _load_config
\* reads.  An empty document becomes {} and config["daemons"] in
\* _load_daemons raises KeyError.  The gathered tasks are queued together
\* and none of them suspends: they run back to back, and Hell.start holds
\* the loop until it returns.  The method has no guard of its own, and
\* __init__ forgets the watcher task without cancelling it.
Hell_start(doc) ==
    /\ loop = "idle"
    /\ config' = doc
    /\ registry' = IF doc.kind = "empty" THEN {} ELSE load_daemons(doc)
    /\ running' = TRUE
    /\ watcher' = "none"
    /\ process' = [d \in Daemons |-> NewDaemon.process]
    /\ alive' = [d \in Daemons |-> NewDaemon.alive]
    /\ orphaned' = (orphaned \/ \E d \in Daemons : alive[d] # {})
    /\ stale_watchers' = IF watcher = "sleeping"
                         THEN stale_watchers + 1 ELSE stale_watchers
    /\ start_attempts' = [d \in Daemons |-> NewDaemon.start_attempts]
    /\ starts_count' = [d \in Daemons |-> NewDaemon.starts_count]
    /\ failed_starts' = [d \in Daemons |-> NewDaemon.failed_starts]
    /\ installed' = [d \in Daemons |-> NewDaemon.installed]
    /\ installer_runs' = [d \in Daemons |-> NewDaemon.installer_runs]
    /\ venv_created' = [d \in Daemons |-> NewDaemon.venv_created]
    /\ venv_exists' = NewDaemon.venv_exists
    /\ status' = [d \in Daemons |-> "none"]
    /\ touched' = {}
    /\ errors' = 0
    /\ starting' = InOrder(registry')
    /\ IF doc.kind = "empty"
       THEN loop' = "idle" /\ last' = GlobalCall("start", "KeyError")
       ELSE IF registry' = {}
       THEN loop' = "idle" /\ last' = GlobalCall("start", "false")
       ELSE loop' = "start_all" /\ last' = NoCall
    /\ UNCHANGED <<pending, stop_list>>

\* POST /hell/start: the route calls Hell.start unless Hell().running.
HellStart(doc) ==
    /\ ~running
    /\ Hell_start(doc)
    /\ UNCHANGED <<accessVars, restarting>>

\* One task of _start_all: start_daemon(daemon), which counts a start that
\* returns False or raises as one error.
StartAllTask ==
    /\ loop = "start_all"
    /\ starting # <<>>
    /\ LET d == Head(starting)
       IN  \E second \in LaterReads(is_running(d)),
              prov \in ProvisionChoices(d) :
          \E sp \in SpawnChoices(d, prov) :
              LET r == start(d, Dmn(d), second, prov, sp)
              IN  /\ Commit(d, r.dm)
                  /\ last' = StartCall("start_all", d, r)
                  /\ errors' = IF r.result = "true" THEN errors ELSE errors + 1
    /\ starting' = Tail(starting)
    /\ UNCHANGED <<hellVars, loop, pending, stop_list, status, touched>>
    /\ UNCHANGED <<accessVars, restartVars>>

\* _start_all's result: True when not every start was an error.
start_all_result_all(errs, n) == errs = 0

start_all_result(errs, n) == errs < n

\* Hell.start after the gather: the tally, then the watcher task.
HellStartEnd ==
    /\ loop = "start_all"
    /\ starting = <<>>
    /\ loop' = "idle"
    /\ errors' = 0
    /\ IF start_all_result(errors, Cardinality(registry))
       THEN watcher' = "sleeping" /\ last' = GlobalCall("start", "true")
       ELSE watcher' = watcher /\ last' = GlobalCall("start", "false")
    /\ UNCHANGED <<registry, config, running, orphaned, daemonVars, pending,
                   stop_list, starting, status, touched>>
    /\ UNCHANGED <<accessVars, restartVars>>

\* -------------------------------------------------------- global stop
\* Hell.stop when the system is not running.
HellStopNotRunning ==
    /\ loop = "idle"
    /\ ~running
    /\ last' = GlobalCall("stop", "false")
    /\ UNCHANGED <<hellVars, daemonVars, loopVars, status, touched>>
    /\ UNCHANGED <<accessVars, restartVars>>

\* Hell.stop when the watcher task ended with an exception: awaiting the
\* task raises it again.
HellStopWatcherCrashed ==
    /\ loop = "idle"
    /\ running
    /\ watcher = "crashed"
    /\ running' = FALSE
    /\ last' = GlobalCall("stop", "SpawnError")
    /\ UNCHANGED <<registry, config, watcher, orphaned, daemonVars, loopVars, status,
                   touched>>
    /\ UNCHANGED <<accessVars, restartVars>>

\* Hell.stop: the watcher is cancelled and awaited (it returns on
\* CancelledError), then _stop_all lists the running daemons.
Hell_stop ==
    /\ loop = "idle"
    /\ running
    /\ watcher # "crashed"
    /\ running' = FALSE
    /\ watcher' = IF watcher = "sleeping" THEN "done" ELSE watcher
    /\ stop_list' = InOrder(get_running_daemons)
    /\ loop' = "stop_all"
    /\ last' = NoCall
    /\ UNCHANGED <<registry, config, orphaned, daemonVars, pending, starting, errors,
                   status, touched>>

\* Hell.stop called by the route POST /hell/stop or by the operator.
HellStop ==
    /\ Hell_stop
    /\ UNCHANGED <<accessVars, restartVars>>

\* Hell.restart: `if not success: return False, msg`, else Hell.start.
restart_starts_always(stop_result) == TRUE

restart_starts(stop_result) == stop_result = "true"

\* Hell.restart.  On a supervisor that is not running Hell.stop returns
\* False and restart returns that failure.  On a running supervisor it is
\* Hell.stop, carried on by the steps of _stop_all, and after sleep(0)
\* Hell.start, which HellStart takes once the stop has returned.
HellRestart ==
    /\ loop = "idle"
    /\ IF running THEN HellStop \/ HellStopWatcherCrashed
       ELSE IF restart_starts("false")
       THEN \E doc \in Documents : HellStart(doc)
       ELSE /\ last' = GlobalCall("restart", "false")
            /\ UNCHANGED <<hellVars, daemonVars, loopVars, status, touched>>
    /\ UNCHANGED <<accessVars, restartVars>>

\* POST /hell/stop or POST /hell/restart on a supervisor that is not
\* running: the dependency hell_is_running, which both routes declare,
\* answers 404 before the route.
ApiHellNotRunning ==
    /\ loop = "idle"
    /\ ~hell_is_running
    /\ last' = GlobalCall("api_stop_or_restart", "404")
    /\ UNCHANGED <<hellVars, daemonVars, loopVars, status, touched>>
    /\ UNCHANGED <<accessVars, restartVars>>

\* _stop_all: `await daemon.stop()` for the next listed daemon.  An
\* exception of Daemon.stop leaves _stop_all, Hell.stop and the
\* Hell.restart that called it.
StopAllNext ==
    /\ loop = "stop_all"
    /\ stop_list # <<>>
    /\ LET d == Head(stop_list)
       IN  \E second \in LaterReads(is_running(d)), ks \in KillChoices(d) :
              LET r == stop(Dmn(d), second, ks)
              IN  /\ Commit(d, r.dm)
                  /\ IF r.result \in {"true", "false"}
                     THEN /\ stop_list' = Tail(stop_list)
                          /\ loop' = loop
                          /\ last' = Call("stop_all", d, r.result, r.sent)
                          /\ restarting' = restarting
                     ELSE /\ stop_list' = <<>>
                          /\ loop' = "idle"
                          /\ last' = Call("stop", d, r.result, r.sent)
                          /\ restarting' = FALSE
    /\ UNCHANGED <<hellVars, pending, starting, errors, status, touched>>
    /\ UNCHANGED <<accessVars, stale_watchers>>

\* utils.kill_by_signal(pid, SIGTERM): the child exits or ignores it.
kill_by_signal(children, pid, dies) ==
    IF dies THEN children \ {pid} ELSE children

\* _stop_all after its loop: SIGTERM to every daemon still running, a log
\* line for each, and Hell.stop returns (True, "System stopped").
StopAllEnd ==
    /\ loop = "stop_all"
    /\ stop_list = <<>>
    /\ \E dying \in SUBSET get_running_daemons :
          alive' = [d \in Daemons |->
                      IF d \in get_running_daemons
                      THEN kill_by_signal(alive[d], process[d], d \in dying)
                      ELSE alive[d]]
    /\ loop' = "idle"
    /\ last' = GlobalCall("stop", "true")
    /\ UNCHANGED <<hellVars, process, start_attempts, starts_count,
                   failed_starts, installed, installer_runs, venv_created,
                   venv_exists, pending,
                   stop_list, starting,
                   errors, status, touched>>
    /\ UNCHANGED <<accessVars, restartVars>>

\* ------------------------------------------------------------ watcher
\* The first loop of __check_daemons_state: who goes to pending_for_restart.
watcher_pending_any(d) == ~is_running(d)

watcher_pending_unobserved(d) == keep_running[d]

watcher_pending(d) == ~is_running(d) /\ keep_running[d]

\* The second loop's test before `await daemon.start()`.
watcher_restarts(d) == get_failed_starts(d) < MAX_FAILED_STARTS

\* The watcher task wakes from its sleep and polls every daemon.
WatcherWake ==
    /\ loop = "idle"
    /\ watcher = "sleeping"
    /\ loop' = "watcher"
    /\ pending' = InOrder({d \in registry : watcher_pending(d)})
    /\ status' = [d \in Daemons |->
                    IF d \in registry /\ watcher_pending(d)
                    THEN "pending" ELSE status[d]]
    /\ touched' = touched \cup Restartable(get_running_daemons)
    /\ last' = NoCall
    /\ UNCHANGED <<hellVars, daemonVars, stop_list, starting, errors>>
    /\ UNCHANGED <<accessVars, restartVars>>

\* The second loop: `await daemon.start()` for the next pending daemon.  An
\* exception of Daemon.start ends the watcher task.
WatcherStart ==
    /\ loop = "watcher"
    /\ pending # <<>>
    /\ watcher_restarts(Head(pending))
    /\ TotalAttempts < MaxAttempts
    /\ LET d == Head(pending)
       IN  \E second \in LaterReads(is_running(d)),
              prov \in ProvisionChoices(d) :
          \E sp \in SpawnChoices(d, prov) :
              LET r == start(d, Dmn(d), second, prov, sp)
              IN  /\ Commit(d, r.dm)
                  /\ last' = StartCall("watcher_start", d, r)
                  /\ IF r.result \in {"true", "false"}
                     THEN /\ pending' = Tail(pending)
                          /\ UNCHANGED <<loop, watcher>>
                     ELSE /\ pending' = <<>>
                          /\ loop' = "idle"
                          /\ watcher' = "crashed"
    /\ UNCHANGED <<registry, config, running, orphaned, stop_list, starting, errors,
                   status, touched>>
    /\ UNCHANGED <<accessVars, restartVars>>

\* The second loop passes over a pending daemon whose budget is used up.
WatcherSkip ==
    /\ loop = "watcher"
    /\ pending # <<>>
    /\ ~watcher_restarts(Head(pending))
    /\ pending' = Tail(pending)
    /\ last' = NoCall
    /\ UNCHANGED <<hellVars, daemonVars, loop, stop_list, starting, errors,
                   status, touched>>
    /\ UNCHANGED <<accessVars, restartVars>>

\* The end of an iteration: return when no daemon is running, else sleep.
WatcherEnd ==
    /\ loop = "watcher"
    /\ pending = <<>>
    /\ loop' = "idle"
    /\ watcher' = IF get_running_daemons = {} THEN "done" ELSE watcher
    /\ last' = NoCall
    /\ UNCHANGED <<registry, config, running, orphaned, daemonVars, pending,
                   stop_list, starting, errors, status, touched>>
    /\ UNCHANGED <<accessVars, restartVars>>

\* -------------------------------------------------------- environment
\* A child of a daemon exits by itself.
ChildExit(d) ==
    /\ \E p \in alive[d] : alive' = [alive EXCEPT ![d] = @ \ {p}]
    /\ last' = NoCall
    /\ UNCHANGED <<hellVars, loopVars, process, start_attempts, starts_count,
                   failed_starts, installed, installer_runs, venv_created,
                   venv_exists, status, touched>>
    /\ UNCHANGED <<accessVars, restartVars>>

\* The last child that lost its Daemon object exits.
OrphanExit ==
    /\ orphaned
    /\ orphaned' = FALSE
    /\ last' = NoCall
    /\ UNCHANGED <<registry, config, running, watcher, daemonVars, loopVars, status,
                   touched>>
    /\ UNCHANGED <<accessVars, restartVars>>

\* ------------------------------------------------- earlier Daemon.kill
\* The property Daemon.status of src/app/local/daemon.py: the stored tag
\* when there is one, else RUNNING or STOPPED by is_running(), which it
\* stores.
Daemon_status(st, dm) ==
    IF st # "none" THEN st
    ELSE IF handle_is_running(dm) THEN "running" ELSE "stopped"

\* Daemon.kill of src/app/local/daemon.py.  `poll() is None` tells that the
\* child has not exited.  `ts` and `ks` are what terminate() and kill() do
\* to the child.
local_kill(dm, st, ts, ks) ==
    LET d1 == [dm EXCEPT !.alive = IF ts = "dies" THEN @ \ {dm.process} ELSE @]
        d2 == [d1 EXCEPT !.alive = IF ks = "dies" THEN @ \ {dm.process} ELSE @]
    IN  IF dm.process = 0 \/ Daemon_status(st, dm) = "stopped"
        THEN [dm |-> dm, result |-> "false", sent |-> <<>>]
        ELSE IF handle_is_running(d1)
        THEN [dm |-> d1, result |-> "true", sent |-> <<"terminate">>]
        ELSE IF handle_is_running(d2)
        THEN [dm |-> d2, result |-> "true", sent |-> <<"terminate", "kill">>]
        ELSE [dm |-> d2, result |-> "false", sent |-> <<"terminate", "kill">>]

\* Daemon.kill of src/app/daemon.py: terminate(), then True.
app_kill(dm, ts) ==
    LET d1 == [dm EXCEPT !.alive = IF ts = "dies" THEN @ \ {dm.process} ELSE @]
    IN  IF dm.process = 0
        THEN [dm |-> dm, result |-> "false", sent |-> <<>>]
        ELSE [dm |-> d1, result |-> "true", sent |-> <<"terminate">>]

\* A call of the kill() of src/app/local/daemon.py on a registered daemon.
LocalDaemonKill(d) ==
    /\ loop = "idle"
    /\ d \in registry
    /\ \E ts \in KillOutcomes, ks \in KillOutcomes :
          LET r == local_kill(Dmn(d), status[d], ts, ks)
          IN  /\ Commit(d, r.dm)
              /\ last' = Call("kill", d, r.result, r.sent)
    /\ status' = [status EXCEPT ![d] =
                     IF process[d] = 0 THEN @ ELSE Daemon_status(@, Dmn(d))]
    /\ touched' = touched \cup Restartable({d})
    /\ UNCHANGED <<hellVars, loopVars>>
    /\ UNCHANGED <<accessVars, restartVars>>

\* A call of the kill() of src/app/daemon.py on a registered daemon.
AppDaemonKill(d) ==
    /\ loop = "idle"
    /\ d \in registry
    /\ \E ts \in KillOutcomes :
          LET r == app_kill(Dmn(d), ts)
          IN  /\ Commit(d, r.dm)
              /\ last' = Call("kill_first", d, r.result, r.sent)
    /\ touched' = touched \cup Restartable({d})
    /\ UNCHANGED <<hellVars, loopVars, status>>
    /\ UNCHANGED <<accessVars, restartVars>>

\* ------------------------------------------------------- Hell.restart
\* Hell.restart on a running supervisor, up to its sleep: Hell.stop,
\* carried on by the steps of _stop_all.  An exception of the stop leaves
\* restart too.  One restart call is in flight at a time.
HellRestartStop ==
    /\ ~restarting
    /\ stale_watchers < MaxStaleWatchers
    /\ Hell_stop
    /\ restarting' = TRUE
    /\ UNCHANGED <<accessVars, stale_watchers>>

\* Hell.restart after `await asyncio.sleep(delay_sec)`: Hell.start, called
\* whatever requests the loop served during the sleep.
RestartStart(doc) ==
    /\ restarting
    /\ Hell_start(doc)
    /\ restarting' = FALSE
    /\ UNCHANGED accessVars

\* One iteration of a watcher task that _watcher_task no longer names: the
\* code of WatcherWake to WatcherEnd on the registry of the moment, run
\* without suspension.  keep_running holds for one daemon, so
\* pending_for_restart has at most one element.  The task ends when its
\* start raises or when no daemon is running.
StaleWatcherPoll ==
    /\ loop = "idle"
    /\ stale_watchers > 0
    /\ UNCHANGED <<hellVars, loopVars, accessVars, restarting>>
    /\ status' = [d \in Daemons |->
                    IF d \in registry /\ watcher_pending(d)
                    THEN "pending" ELSE status[d]]
    /\ touched' = touched \cup Restartable(get_running_daemons)
    /\ LET pend == InOrder({d \in registry : watcher_pending(d)})
       IN  IF pend # <<>> /\ watcher_restarts(Head(pend))
           THEN /\ TotalAttempts < MaxAttempts
                /\ LET d == Head(pend)
                   IN  \E second \in LaterReads(is_running(d)),
                          prov \in ProvisionChoices(d) :
                      \E sp \in SpawnChoices(d, prov) :
                          LET r == start(d, Dmn(d), second, prov, sp)
                          IN  /\ Commit(d, r.dm)
                              /\ last' = StartCall("stale_watcher_start", d, r)
                              /\ stale_watchers' =
                                    IF \/ r.result \notin {"true", "false"}
                                       \/ get_running_daemons' = {}
                                    THEN stale_watchers - 1
                                    ELSE stale_watchers
           ELSE /\ UNCHANGED daemonVars
                /\ last' = NoCall
                /\ stale_watchers' = IF get_running_daemons = {}
                                     THEN stale_watchers - 1
                                     ELSE stale_watchers

\* ------------------------------------------------------- access routes
supervisorVars == <<hellVars, daemonVars, loopVars, status, touched, last,
                    restartVars>>

\* is_local_network
is_local_network(ip) == ip \in {"loopback", "private"}

\* verify_token: a row of APIKey whose token equals the presented key.
verify_token_any(key) == TRUE

verify_token(key) == \E k \in keys : k.token = key

\* The unique index on APIKey.invitation: a row for the invitation exists.
key_exists(code) == \E k \in keys : k.invitation = code

\* A thread is free to take the next request.
Free(t) == req[t].pc \in {"idle", "done"}

\* The answer of a request: `late` tells that a token of the request's
\* invitation existed, made by another request, when it was answered.
Answer(r, st) ==
    [r EXCEPT !.pc = "done", !.status = st,
              !.late = (r.op = "token" /\ ~r.made /\ key_exists(r.code))]

\* POST /create/invitation
CreateInvitation(t, ip) ==
    /\ Free(t)
    /\ LET r == [NoRequest EXCEPT !.op = "invitation", !.ip = ip]
           unused == SelectSeq(CodeOrder, LAMBDA c : ~invitations[c].exists)
       IN  IF ~is_local_network(ip)
           THEN /\ req' = [req EXCEPT ![t] = Answer(r, "403")]
                /\ UNCHANGED invitations
           ELSE /\ unused # <<>>
                /\ invitations' = [invitations EXCEPT
                                      ![Head(unused)] = NewInvitation]
                /\ req' = [req EXCEPT ![t] =
                              Answer([r EXCEPT !.code = Head(unused),
                                               !.made = TRUE], "200")]
    /\ UNCHANGED <<keys, supervisorVars>>

\* POST /create/token up to the tests of the row it selected: an unknown
\* code and a used invitation are answered 400; an expired one is to be
\* saved as inactive; otherwise the token is to be created.
TokenSelect(t, code, ip) ==
    /\ Free(t)
    /\ LET r == [NoRequest EXCEPT !.op = "token", !.ip = ip, !.code = code]
           inv == invitations[code]
       IN  req' = [req EXCEPT ![t] =
                     IF ~inv.exists \/ ~inv.active THEN Answer(r, "400")
                     ELSE IF inv.expired THEN [r EXCEPT !.pc = "expire"]
                     ELSE [r EXCEPT !.pc = "create"]]
    /\ UNCHANGED <<invitations, keys, supervisorVars>>

\* The expired branch: the invitation is saved as inactive; building the
\* detail of the 400 calls to_value() on a datetime, which raises.
TokenExpired(t) ==
    /\ req[t].pc = "expire"
    /\ invitations' = [invitations EXCEPT ![req[t].code].active = FALSE]
    /\ req' = [req EXCEPT ![t] = Answer(req[t], "500")]
    /\ UNCHANGED <<keys, supervisorVars>>

\* APIKey.create: the insert fails on the unique index when the invitation
\* has a row already (IntegrityError, not handled: 500).
TokenCreate(t) ==
    /\ req[t].pc = "create"
    /\ IF key_exists(req[t].code)
       THEN /\ req' = [req EXCEPT ![t] = Answer(req[t], "500")]
            /\ UNCHANGED keys
       ELSE /\ keys' = keys \cup {[token |-> Cardinality(keys) + 1,
                                   invitation |-> req[t].code]}
            /\ req' = [req EXCEPT ![t] =
                          [req[t] EXCEPT !.pc = "deactivate",
                                         !.key = Cardinality(keys) + 1,
                                         !.made = TRUE]]
    /\ UNCHANGED <<invitations, supervisorVars>>

\* inv.active = False; inv.save(); the token is returned.
TokenDeactivate(t) ==
    /\ req[t].pc = "deactivate"
    /\ invitations' = [invitations EXCEPT ![req[t].code].active = FALSE]
    /\ req' = [req EXCEPT ![t] = Answer(req[t], "200")]
    /\ UNCHANGED <<keys, supervisorVars>>

\* Time passes the expires_at of an invitation.
Expire(c) ==
    /\ invitations[c].exists
    /\ ~invitations[c].expired
    /\ invitations' = [invitations EXCEPT ![c].expired = TRUE]
    /\ UNCHANGED <<keys, req, supervisorVars>>

\* A request to a route of the daemons or the hell router, which carry
\* Depends(verify_token): the route body runs only when it passes.
ControlRequest(t, key) ==
    /\ Free(t)
    /\ LET r == [NoRequest EXCEPT !.op = "control", !.key = key]
       IN  req' = [req EXCEPT ![t] =
                     IF verify_token(key)
                     THEN Answer([r EXCEPT !.performed = TRUE], "200")
                     ELSE Answer(r, "403")]
    /\ UNCHANGED <<invitations, keys, supervisorVars>>

Next ==
    \/ \E d \in Daemons : StartDaemon(d)
    \/ \E d \in Daemons : StopDaemon(d)
    \/ \E d \in Daemons : RestartDaemon(d)
    \/ \E doc \in Documents : HellStart(doc)
    \/ StartAllTask
    \/ HellStartEnd
    \/ HellStopNotRunning
    \/ HellStopWatcherCrashed
    \/ HellStop
    \/ StopAllNext
    \/ StopAllEnd
    \/ WatcherWake
    \/ WatcherStart
    \/ WatcherSkip
    \/ WatcherEnd
    \/ \E d \in Daemons : ChildExit(d)
    \/ OrphanExit

Spec == Init /\ [][Next]_vars

\* The supervisor with the routes of the daemons router.
DaemonsApiNext ==
    \/ Next
    \/ \E d \in Daemons : ApiStartDaemon(d)
    \/ \E d \in Daemons : ApiStopDaemon(d)

SpecDaemonsApi == Init /\ [][DaemonsApiNext]_vars

\* The supervisor with Hell.restart and the routes of the hell router.
HellApiNext ==
    \/ Next
    \/ HellRestart
    \/ ApiHellNotRunning

SpecHellApi == Init /\ [][HellApiNext]_vars

\* The global calls of the supervisor, with the two halves of Hell.restart
\* and the watcher tasks a start leaves behind.
RestartNext ==
    \/ \E doc \in Documents : HellStart(doc)
    \/ StartAllTask
    \/ HellStartEnd
    \/ HellStopNotRunning
    \/ HellStopWatcherCrashed
    \/ HellStop
    \/ StopAllNext
    \/ StopAllEnd
    \/ WatcherWake
    \/ WatcherStart
    \/ WatcherSkip
    \/ WatcherEnd
    \/ \E d \in Daemons : ChildExit(d)
    \/ OrphanExit
    \/ HellRestartStop
    \/ \E doc \in Documents : RestartStart(doc)
    \/ StaleWatcherPoll

SpecRestart == Init /\ [][RestartNext]_vars

\* The calls by daemon name, for names the registry holds and names it
\* does not, on the registries a global start can leave.
DaemonOps == {"start_daemon", "stop_daemon", "restart_daemon"}

NamesNext ==
    \/ \E d \in Daemons : StartDaemon(d)
    \/ \E d \in Daemons : StopDaemon(d)
    \/ \E d \in Daemons : RestartDaemon(d)
    \/ \E op \in DaemonOps, d \in Daemons : UnknownDaemon(op, d)
    \/ \E doc \in Documents : HellStart(doc)
    \/ StartAllTask
    \/ HellStartEnd
    \/ HellStopNotRunning
    \/ HellStop
    \/ StopAllNext
    \/ StopAllEnd
    \/ \E d \in Daemons : ChildExit(d)

SpecNames == Init /\ [][NamesNext]_vars

\* The daemons a global start leaves, stopped by Daemon.stop and by the
\* kill() of the two earlier Daemon classes.
KillNext ==
    \/ \E d \in Daemons : StartDaemon(d)
    \/ \E d \in Daemons : StopDaemon(d)
    \/ \E d \in Daemons : LocalDaemonKill(d)
    \/ \E d \in Daemons : AppDaemonKill(d)
    \/ \E doc \in Documents : HellStart(doc)
    \/ StartAllTask
    \/ HellStartEnd
    \/ \E d \in Daemons : ChildExit(d)

SpecKill == Init /\ [][KillNext]_vars

\* The requests of the access tables alone.
AccessNext ==
    \/ \E t \in Threads, ip \in Addresses : CreateInvitation(t, ip)
    \/ \E t \in Threads, c \in Codes, ip \in Addresses : TokenSelect(t, c, ip)
    \/ \E t \in Threads : TokenExpired(t)
    \/ \E t \in Threads : TokenCreate(t)
    \/ \E t \in Threads : TokenDeactivate(t)
    \/ \E c \in Codes : Expire(c)
    \/ \E t \in Threads, key \in PresentedKeys : ControlRequest(t, key)

SpecAccess == Init /\ [][AccessNext]_vars

\* -------------------------------------------------------------- claims
\* The calls that run Daemon.start alone, and those that run Daemon.stop.
StartOps == {"start_daemon", "start_all", "watcher_start"}
StopOps == {"stop_daemon", "restart_daemon", "stop_all", "stop"}

\* The counters and the handle of the daemon of the last call are as they
\* were when the call started.
LastLeftDaemonAlone == last.d \in Daemons /\ Snapshot(last.d) = last.pre

\* C1: a start() called on a daemon whose is_running() is true fails with
\* DaemonIsRunningError and leaves starts_count, start_attempts,
\* failed_starts and the process handle as they were.
C1_StartOnRunningRejected ==
    (last.op \in StartOps /\ last.pre_running)
        => (last.result = "DaemonIsRunningError" /\ LastLeftDaemonAlone)

\* C2: a stop() called on a daemon that is not running raises
\* DaemonIsNotRunningError, sends neither kill nor terminate, and leaves the
\* daemon's counters and handle as they were.
C2_StopOnStoppedRejected ==
    (last.op \in StopOps /\ last.d \in Daemons /\ ~last.pre_running)
        => /\ last.result = "DaemonIsNotRunningError"
           /\ last.sent = <<>>
           /\ LastLeftDaemonAlone

C2_Witness ==
    /\ last.op = "stop_daemon"
    /\ ~last.pre_running
    /\ last.pre.process # 0
    /\ last.result = "DaemonIsNotRunningError"

\* C3: when Hell.stop returns success, no daemon of the registry is running.
C3_StopLeavesNoneRunning ==
    (last.op = "stop" /\ last.result = "true")
        => \A d \in registry : ~is_running(d)

C5_WatcherStartsOnlyEligible ==
    last.op = "watcher_start"
        => /\ keep_running[last.d]
           /\ ~last.pre_running
           /\ last.pre.failed_starts < MAX_FAILED_STARTS

C5_Witness ==
    /\ last.op = "watcher_start"
    /\ last.result = "true"
    /\ last.pre.failed_starts = MAX_FAILED_STARTS - 1

\* C6: a daemon whose start_attempts - starts_count has reached
\* MAX_FAILED_STARTS has status ERROR.
C6_ExhaustedIsError ==
    \A d \in registry :
        start_attempts[d] - starts_count[d] >= MAX_FAILED_STARTS
            => status[d] = "error"

\* C7: a daemon with keep_running whose every child exited before a watcher
\* poll could see it running, and which no operator call touched, is not
\* started by the watcher once MAX_FAILED_STARTS starts of it have been made.
C7_FlakyRestartsBounded ==
    (last.op = "watcher_start" /\ last.d \notin touched)
        => last.pre.start_attempts < MAX_FAILED_STARTS

\* C8: starts_count never exceeds start_attempts.
C8_StartsWithinAttempts ==
    \A d \in Daemons : starts_count[d] <= start_attempts[d]

C8_Witness ==
    \E d \in registry :
        /\ starts_count[d] >= 1
        /\ failed_starts[d] >= 1
        /\ starts_count[d] < start_attempts[d]

\* C9: every start attempt is counted as one success or as one failure:
\* failed_starts = start_attempts - starts_count.
C9_AttemptsAccounted ==
    \A d \in Daemons : failed_starts[d] = start_attempts[d] - starts_count[d]

\* C10: when restart_daemon returns success the daemon is running and its
\* starts_count is one more than before the call.
C10_RestartSuccess ==
    (last.op = "restart_daemon" /\ last.result = "true")
        => /\ is_running(last.d)
           /\ starts_count[last.d] = last.pre.starts_count + 1

C10_Witness ==
    /\ last.op = "restart_daemon"
    /\ last.result = "true"
    /\ last.pre_running
    /\ last.pre.starts_count >= 1

\* C11: Hell.start reports success exactly when a start of the gather
\* returned True; every start that returned False or raised is one error
\* of the tally; the watcher task exists only after a reported success.
C11_StartSuccessIffSomeStarted ==
    /\ loop = "start_all"
          => errors = Cardinality({d \in registry \ Range(starting) :
                                      starts_count[d] = 0})
    /\ last.op = "start"
          => /\ (last.result = "true") = (\E d \in registry : starts_count[d] >= 1)
             /\ watcher = "sleeping" => last.result = "true"

C11_Witness ==
    /\ last.op = "start"
    /\ last.result = "true"
    /\ watcher = "sleeping"
    /\ \E d \in registry : starts_count[d] = 0 /\ start_attempts[d] = 1

\* C12: with an empty configuration document Hell.start returns a failure
\* result, spawns no child and leaves the registry empty.
C12_EmptyConfigFails ==
    (last.op = "start" /\ config.kind = "empty")
        => /\ last.result = "false"
           /\ registry = {}
           /\ \A d \in Daemons : alive[d] = {}

\* C13: no two daemons of the registry have the same main file, and a
\* daemon whose main file is that of a registered daemon is not registered.
C13_MainFilesUnique ==
    \A d1 \in registry : \A d2 \in registry :
        d1 # d2 => config.daemons[d1].main_file_path
                       # config.daemons[d2].main_file_path

C13_Witness ==
    /\ config.kind = "daemons"
    /\ \A d \in Daemons :
          /\ config.daemons[d].declared
          /\ config.daemons[d].dir_exists
          /\ config.daemons[d].target_exists
          /\ config.daemons[d].requirements_exists
    /\ config.daemons["a"].main_file_path = config.daemons["b"].main_file_path
    /\ registry = {"a"}
    /\ last.op = "start"

\* An entry of the loaded document whose directory, target file and declared
\* requirements file all exist.
EntryFilesExist(d) ==
    /\ config.daemons[d].declared
    /\ config.daemons[d].dir_exists
    /\ config.daemons[d].target_exists
    /\ (requirements_path[d] => config.daemons[d].requirements_exists)

\* C14: an entry with a missing directory, target or declared requirements
\* file is not in the registry; every other entry whose files exist (and
\* whose main file no registered daemon has) is in the registry, and was
\* started by the time Hell.start returns.
C14_InvalidSkippedOthersLoaded ==
    config.kind = "daemons"
        => \A d \in Daemons :
              /\ (config.daemons[d].declared /\ ~EntryFilesExist(d))
                    => d \notin registry
              /\ (/\ EntryFilesExist(d)
                  /\ \A r \in registry \ {d} :
                        config.daemons[r].main_file_path
                            # config.daemons[d].main_file_path)
                    => /\ d \in registry
                       /\ last.op = "start" => start_attempts[d] = 1

C14_Witness ==
    /\ last.op = "start"
    /\ config.daemons["a"].declared
    /\ ~config.daemons["a"].dir_exists
    /\ "b" \in registry
    /\ start_attempts["b"] = 1

\* C15: Daemon.stop issues terminate before any kill.
C15_TerminateBeforeKill ==
    \A i \in DOMAIN last.sent :
        last.sent[i] = "kill"
            => \E j \in 1..(i - 1) : last.sent[j] = "terminate"

\* C16: when _stop_all ends, every daemon it listed as running has had its
\* stop() called: none is left in the list behind the one just stopped.
C16_EveryListedDaemonStopped ==
    [][(loop = "stop_all" /\ loop' # "stop_all") => Len(stop_list) <= 1]_vars

\* C17: the watcher does not start a daemon in the iteration in which it
\* found it not running (pending holds the daemons found in this iteration).
C17_NoRestartInObservingIteration ==
    [][(loop = "watcher" /\ last'.op = "watcher_start" /\ pending' # pending)
          => last'.d \notin Range(pending)]_vars

\* The errors of the decorator running_required.
DecoratorErrors == {"DaemonIsRunningError", "DaemonIsNotRunningError"}

C19_StopReturnsWatcherStaysDown ==
    /\ last.op = "stop" => last.result \in {"true", "false"}
    /\ last.op = "watcher_start" => running

\* C20: the installer exits with 0 at most once for a Daemon, and once it
\* has, installed_requirements is non-empty.
C20_ProvisionedOnce ==
    \A d \in Daemons :
        /\ installer_runs[d] <= 1
        /\ installer_runs[d] >= 1 => installed[d]

\* C21: a start call that fails at provisioning (the environment or the
\* requirements could not be set up) counts one attempt and one failure,
\* leaves the count of successful starts and the process handle as they
\* were and spawns no child.
C21_ProvisioningFailureCounted ==
    (/\ last.op \in StartOps
     /\ last.result = "false"
     /\ requirements_path[last.d]
     /\ ~installed[last.d])
    => /\ start_attempts[last.d] = last.pre.start_attempts + 1
       /\ failed_starts[last.d] = last.pre.failed_starts + 1
       /\ starts_count[last.d] = last.pre.starts_count
       /\ process[last.d] = last.pre.process

C21_Witness ==
    /\ last.op = "start_daemon"
    /\ last.d = "b"
    /\ last.result = "false"
    /\ ~installed["b"]
    /\ last.pre.failed_starts >= 1
    /\ venv_exists
    /\ ~venv_created["b"]

\* C22: _create_venv on an existing directory succeeds without running the
\* creation command and without changing the daemon, and a second call in
\* a row leaves the daemon as the first call left it.
C22_CreateVenvIdempotent ==
    \A d \in registry : \A vo \in VenvOutcomes :
        LET once == Daemon_create_venv(Dmn(d), vo)
            twice == Daemon_create_venv(once.dm, vo)
        IN  /\ twice.dm = once.dm
            /\ Dmn(d).venv_exists =>
                   once.result /\ ~once.ran /\ once.dm = Dmn(d)
            /\ twice.result /\ once.ran => ~twice.ran

C22_Witness ==
    /\ "b" \in registry
    /\ venv_exists
    /\ venv_created["b"]
    /\ ~installed["b"]
    /\ start_attempts["b"] >= 2

C29_SnapshotInEveryState ==
    \A d \in registry : \A probe \in ProbeOutcomes :
        LET s == get_state(Dmn(d), probe)
        IN  /\ s.result = "State"
            /\ ~is_running(d) => (~s.running /\ s.pid = -1)

\* C28: a global stop or restart requested while the supervisor is not
\* running is rejected (failure result from Hell.stop and Hell.restart,
\* 404 from the routes) and changes nothing: no daemon is stopped or
\* started and the registry is as it was.
C28_StopRestartRejectedWhenNotRunning ==
    [][(/\ ~running
        /\ loop = "idle"
        /\ \/ HellStopNotRunning
           \/ HellRestart
           \/ ApiHellNotRunning)
       => /\ last'.result \in {"false", "404"}
          /\ UNCHANGED <<hellVars, daemonVars, loopVars, status, touched>>]_vars

C28_Witness ==
    /\ last = GlobalCall("restart", "false")
    /\ ~running
    /\ registry # {}
    /\ \E d \in registry : starts_count[d] >= 1

\* C30: while the supervisor is running, a keep_running daemon that has
\* stopped running with restart budget left is given a start attempt by
\* the watcher.  Only a live watcher task gives one, and one is created
\* only by Hell.start, so between Hell.start and Hell.stop such a daemon
\* must have a live watcher.
C30_StoppedDaemonHasWatcher ==
    \A d \in registry :
        (/\ running
         /\ loop = "idle"
         /\ keep_running[d]
         /\ starts_count[d] >= 1
         /\ ~is_running(d)
         /\ watcher_restarts(d))
        => watcher = "sleeping"

\* C25: an invitation is single-use under any interleaving of the
\* requests that carry its code: at most one token is created for it, and
\* every request answered after that token exists is rejected with 400.
C25_InvitationSingleUse ==
    /\ \A c \in Codes : Cardinality({k \in keys : k.invitation = c}) <= 1
    /\ \A t \in Threads : req[t].late => req[t].status = "400"

C27_IssuanceOnlyFromLocalNetwork ==
    \A t \in Threads :
        (req[t].op \in {"invitation", "token"} /\ ~is_local_network(req[t].ip))
        => /\ ~req[t].made
           /\ req[t].pc = "done" => req[t].status = "403"

\* C31: the watcher starts only a daemon that was running before and is
\* observed not running: a daemon that never started successfully is not
\* started by the watcher, and the poll that follows a successful
\* stop_daemon does not put the stopped daemon into the restart set.
C31_WatcherStartsOnlyFormerlyRunning ==
    [][/\ last'.op = "watcher_start" => last'.pre.starts_count >= 1
       /\ (/\ last.op = "stop_daemon"
           /\ last.result = "true"
           /\ loop = "idle"
           /\ loop' = "watcher")
          => last.d \notin Range(pending')]_vars

\* C32: status PENDING is transient: once the watcher's restart attempt for a
\* daemon has completed the daemon is no longer PENDING, and outside a watcher
\* iteration no daemon whose child is running has status PENDING.
C32_PendingIsTransient ==
    /\ (last.op = "watcher_start" /\ last.result \in {"true", "false"})
          => status[last.d] # "pending"
    /\ loop = "idle"
          => \A d \in registry : is_running(d) => status[d] # "pending"

\* C33: the failure count the watcher compares with MAX_FAILED_STARTS counts
\* consecutive failed starts: right after a successful start of a daemon its
\* failure count is zero.
C33_SuccessResetsFailures ==
    (/\ last.op \in {"start_daemon", "start_all", "watcher_start"}
     /\ last.result = "true"
     /\ last.d \in registry)
        => get_failed_starts(last.d) = 0

\* C34: at most one watcher task is alive at any time, whatever global
\* start, stop and restart calls were made: the task _watcher_task names
\* and the tasks it no longer names are never two or more together.
C34_AtMostOneWatcher ==
    (IF watcher = "sleeping" THEN 1 ELSE 0) + stale_watchers <= 1

\* C35: the child a successful start spawns gets an argv made of the
\* interpreter, the main file path and then every element of the daemon's
\* main_file_arguments in configured order.
C35_ArgvCarriesArguments ==
    (last.op \in {"start_daemon", "start_all", "watcher_start"}
        /\ last.result = "true")
        => LET args == main_file_arguments[last.d]
           IN  /\ Len(last.argv) >= 2 + Len(args)
               /\ last.argv[1] = python_command(Dmn(last.d))
               /\ last.argv[2] = config.daemons[last.d].main_file_path
               /\ \A i \in DOMAIN args : last.argv[2 + i] = args[i]

\* C36: no orphaned children: every live child the supervisor spawned is the
\* process handle of a daemon of the current registry, and no live child has
\* lost its Daemon object to the registry reset of a global start.
C36_NoOrphanedChildren ==
    /\ ~orphaned
    /\ \A d \in Daemons :
          /\ alive[d] \subseteq {process[d]}
          /\ alive[d] # {} => d \in registry

\* C37: when Hell.start does not succeed (it returns a failure result or
\* raises) the running flag is false afterwards, so the next global start
\* request is accepted.
C37_FailedStartLeavesNotRunning ==
    (last.op = "start" /\ last.result # "true") => ~running

\* C38: Hell.stop on a running supervisor goes on to stop every running
\* daemon and does not raise, whatever became of the watcher task before the
\* call: sleeping, returned because no daemon was running, or ended by an
\* exception of a restart attempt.
C38_StopWhateverTheWatcher ==
    [][(running /\ ~running')
          => /\ last'.op # "stop"
             /\ loop' = "stop_all"
             /\ Range(stop_list') = get_running_daemons]_vars

\* C39: start_daemon, stop_daemon and restart_daemon called with a name the
\* registry does not hold return false without raising, and leave every
\* daemon and the registry as they were.
C39_UnknownNameReturnsFalse ==
    (last.op \in DaemonOps /\ last.d \notin registry)
        => (last.result = "false" /\ LastLeftDaemonAlone)

\* C40: the result of stopping a daemon is truthful: Daemon.stop and the
\* earlier Daemon.kill return true only when the child is no longer running
\* at the return, and false only when it is still running.
C40_StopResultTruthful ==
    (last.op \in {"stop_daemon", "kill", "kill_first"} /\ last.d \in Daemons)
        => /\ last.result = "true" => ~is_running(last.d)
           /\ last.result = "false" => is_running(last.d)

====
